---- MODULE Spec2Model ----
(***************************************************************************)
(* TypeScriptServiceClient of                                              *)
(* extensions/typescript-language-features/src/typescriptServiceClient.ts: *)
(* the request queue, the callback map, the service promise chain, the     *)
(* forked tsserver processes and the handlers that connect them.           *)
(*                                                                         *)
(* The client runs on one event loop.  A handler (a public call, a fork    *)
(* callback, a message of the reader, an exit or error event) runs to      *)
(* completion; the continuations it registers with .then() run afterwards  *)
(* as microtasks, in the order in which they became ready, before the next *)
(* I/O event is delivered.  Calls of the owner (execute, cancel, restart,  *)
(* ...) may come from any handler or continuation, hence between any two   *)
(* microtasks.                                                             *)
(***************************************************************************)
EXTENDS Integers, Sequences, FiniteSets, TLC

\* ------------------------------------------------------------------ bounds
\* Each specification bounds the calls of the owner (execute, executeAsync,
\* executeWithoutWaitingForResponse), the startService calls and the
\* restartTsServer calls.
MaxCalls == 2          \* Spec
MaxStarts == 2
MaxRestartCalls == 1
SessionCalls == 3      \* SpecSession: one session
StartupCalls == 3      \* SpecStartup: the calls made before the session runs
StormStarts == 8       \* SpecStorm: restart accounting
RestartCalls == 2      \* SpecRestart: restartTsServer calls
RestartStarts == 4
FailureCalls == 2      \* SpecFailure: failed forks and errors of the reader
FailureStarts == 2
RecoveryCalls == 2     \* SpecRecovery: restartTsServer after the fatal notice
RecoveryStarts == 7
ReadySubscribers == 2  \* SpecReady: the subscribers of the ready notification
ReadyStarts == 3
QueuedCalls == 3       \* SpecQueued: calls around the exit that ends the restarts
QueuedStarts == 7
DisposeCalls == 2      \* SpecDispose: a client that is disposed
DisposeStarts == 3
MapCalls == 4          \* SpecCallbackMap: the callbacks given to one CallbackMap

\* ------------------------------------------------------- program constants
RestartLimit == 5      \* numberRestarts > 5
\* Date.now() - lastStart, as the interval it falls in:
\* 0: diff < 10 s, 1: 10 s <= diff < 60 s, 2: 60 s <= diff
DiffFast == 0
DiffMedium == 1
DiffSlow == 2

\* API versions, as the gates of this file see them:
\* 0: below v206, 1: v206 <= version < v222, 2: v222 <= version
Versions == {0, 2}
Latest == {2}
\* API.defaultVersion (utils/api.ts): 1.0.0, below every gate
defaultVersion == 0
gte206(v) == v >= 1
gte222(v) == v >= 2

VARIABLES
    \* RequestQueue
    queue,               \* RequestQueue.queue: the RequestItems not yet sent
    sequenceNumber,      \* RequestQueue.sequenceNumber
    \* CallbackMap
    callbacks,           \* CallbackMap.callbacks: seq -> call
    asyncCallbacks,      \* CallbackMap.asyncCallbacks: seq -> call
    pendingResponses,    \* CallbackMap.pendingResponses
    \* TypeScriptServiceClient
    servicePromise,      \* 0 (null) or a promise
    lastError,           \* lastError # null
    numberRestarts,
    isRestarting,
    diff,                \* the interval of Date.now() - lastStart
    apiVersion,          \* _apiVersion
    cancellationPipeName,\* cancellationPipeName # null
    readyResolved,       \* _onReady.promise is resolved
    readyInvoked,        \* per onReady(f) call: how often f has run
    disposed,
    \* the event loop
    promises,            \* the service promises created so far
    reactions,           \* per promise, the continuations waiting for it
    microtasks,          \* the continuations ready to run, in order
    \* the forked processes
    handles,
    \* observation
    calls,               \* per call of the owner: its request and its promise
    exits,               \* per serviceExited: what it decided
    markers,             \* the seqs whose cancellation file was written
    restartCalls         \* restartTsServer calls so far

vars == <<queue, sequenceNumber, callbacks, asyncCallbacks, pendingResponses,
          servicePromise, lastError, numberRestarts, isRestarting, diff,
          apiVersion, cancellationPipeName, readyResolved, readyInvoked,
          disposed, promises, reactions, microtasks, handles, calls, exits,
          markers, restartCalls>>

\* The state as one record, for the operators that model methods.
Cur ==
    [queue |-> queue, sequenceNumber |-> sequenceNumber,
     callbacks |-> callbacks, asyncCallbacks |-> asyncCallbacks,
     pendingResponses |-> pendingResponses,
     servicePromise |-> servicePromise, lastError |-> lastError,
     numberRestarts |-> numberRestarts, isRestarting |-> isRestarting,
     diff |-> diff, apiVersion |-> apiVersion,
     cancellationPipeName |-> cancellationPipeName,
     readyResolved |-> readyResolved, readyInvoked |-> readyInvoked,
     disposed |-> disposed,
     promises |-> promises, reactions |-> reactions,
     microtasks |-> microtasks, handles |-> handles, calls |-> calls,
     exits |-> exits, markers |-> markers, restartCalls |-> restartCalls]

Commit(state) == \E s \in {state} :
    /\ queue' = s.queue
    /\ sequenceNumber' = s.sequenceNumber
    /\ callbacks' = s.callbacks
    /\ asyncCallbacks' = s.asyncCallbacks
    /\ pendingResponses' = s.pendingResponses
    /\ servicePromise' = s.servicePromise
    /\ lastError' = s.lastError
    /\ numberRestarts' = s.numberRestarts
    /\ isRestarting' = s.isRestarting
    /\ diff' = s.diff
    /\ apiVersion' = s.apiVersion
    /\ cancellationPipeName' = s.cancellationPipeName
    /\ readyResolved' = s.readyResolved
    /\ readyInvoked' = s.readyInvoked
    /\ disposed' = s.disposed
    /\ promises' = s.promises
    /\ reactions' = s.reactions
    /\ microtasks' = s.microtasks
    /\ handles' = s.handles
    /\ calls' = s.calls
    /\ exits' = s.exits
    /\ markers' = s.markers
    /\ restartCalls' = s.restartCalls

\* --------------------------------------------------------------- helpers
EmptyMap == [x \in {} |-> 0]
MapSet(m, k, v) == [x \in (DOMAIN m) \cup {k} |-> IF x = k THEN v ELSE m[x]]
MapDelete(m, k) == [x \in (DOMAIN m) \ {k} |-> m[x]]
MapValues(m) == {m[x] : x \in DOMAIN m}

RemoveAt(q, i) == [j \in 1..(Len(q) - 1) |-> IF j < i THEN q[j] ELSE q[j + 1]]

NoRequest == [seq |-> 0, id |-> 0, kind |-> "none"]

\* ------------------------------------------------------------ the promises
\* The callbacks c / e of a CallbackItem are the resolve / reject of the
\* promise executeImpl returns: the first invocation settles the promise, a
\* later one changes nothing.  settles counts the invocations.
Settle(s, id, outcome) ==
    [s EXCEPT !.calls[id].result = IF @ = "pending" THEN outcome ELSE @,
              !.calls[id].settles = @ + 1]

RECURSIVE SettleAll(_, _, _)
SettleAll(s, ids, outcome) ==
    IF ids = {} THEN s
    ELSE LET id == CHOOSE x \in ids : TRUE
         IN SettleAll(Settle(s, id, outcome), ids \ {id}, outcome)

\* ------------------------------------------------------------ CallbackMap
destroy(s) ==
    LET s1 == SettleAll(s, MapValues(s.callbacks), "died")
        s2 == SettleAll(s1, MapValues(s.asyncCallbacks), "died")
    IN [s2 EXCEPT !.callbacks = EmptyMap, !.pendingResponses = 0]

\* Mutant: an asynchronous callback counts as a pending response.
add_CountsAsync(s, seq, id, isAsync) ==
    IF isAsync
    THEN [s EXCEPT !.asyncCallbacks = MapSet(@, seq, id),
                   !.pendingResponses = @ + 1]
    ELSE [s EXCEPT !.callbacks = MapSet(@, seq, id),
                   !.pendingResponses = @ + 1]

add(s, seq, id, isAsync) ==
    IF isAsync
    THEN [s EXCEPT !.asyncCallbacks = MapSet(@, seq, id)]
    ELSE [s EXCEPT !.callbacks = MapSet(@, seq, id),
                   !.pendingResponses = @ + 1]

\* Mutant: a seq without callback of execute is counted as a response too.
delete_CountsUnmatched(s, seq) ==
    IF seq \in DOMAIN s.callbacks
    THEN [s EXCEPT !.callbacks = MapDelete(@, seq),
                   !.pendingResponses = @ - 1]
    ELSE [s EXCEPT !.asyncCallbacks = MapDelete(@, seq),
                   !.pendingResponses = @ - 1]

\* Mutant: a callback of execute is removed without being counted.
delete_KeepsCount(s, seq) ==
    IF seq \in DOMAIN s.callbacks
    THEN [s EXCEPT !.callbacks = MapDelete(@, seq)]
    ELSE [s EXCEPT !.asyncCallbacks = MapDelete(@, seq)]

delete(s, seq) ==
    IF seq \in DOMAIN s.callbacks
    THEN [s EXCEPT !.callbacks = MapDelete(@, seq),
                   !.pendingResponses = @ - 1]
    ELSE [s EXCEPT !.asyncCallbacks = MapDelete(@, seq)]

\* The callback fetch returns (0: undefined); fetch also deletes seq.
fetched(s, seq) ==
    IF seq \in DOMAIN s.callbacks THEN s.callbacks[seq]
    ELSE IF seq \in DOMAIN s.asyncCallbacks THEN s.asyncCallbacks[seq]
    ELSE 0

\* Mutant: fetch returns the callback and leaves it registered.
fetch_Keeps(s, seq) == s

fetch(s, seq) == delete(s, seq)

\* new CallbackMap()
newCallbackMap(s) ==
    [s EXCEPT !.callbacks = EmptyMap, !.asyncCallbacks = EmptyMap,
              !.pendingResponses = 0]

\* ----------------------------------------------------------- RequestQueue
\* new RequestQueue()
newRequestQueue(s) == [s EXCEPT !.queue = <<>>, !.sequenceNumber = 0]

push(s, item) == [s EXCEPT !.queue = Append(@, item)]

shift(s) == [s EXCEPT !.queue = Tail(@)]

\* The index of the first queued item with this seq (0: none).
queuedAt(s, seq) ==
    LET at == {i \in 1..Len(s.queue) : s.queue[i].seq = seq}
    IN IF at = {} THEN 0 ELSE CHOOSE i \in at : \A j \in at : i <= j

\* Mutant: the item stays in the queue.
tryCancelPendingRequest_KeepsItem(s, seq) == s

tryCancelPendingRequest(s, seq) ==
    IF queuedAt(s, seq) # 0
    THEN [s EXCEPT !.queue = RemoveAt(@, queuedAt(s, seq))]
    ELSE s

\* createRequest returns the request with seq = sequenceNumber++.
createRequest(s) == [s EXCEPT !.sequenceNumber = @ + 1]

\* -------------------------------------------------------- the event loop
\* promise.then(...): the continuation r runs once the promise is fulfilled
\* with a handle; on a fulfilled promise it is queued at once.
then(s, p, r) ==
    IF s.promises[p].state = "fulfilled"
    THEN [s EXCEPT !.microtasks =
            Append(@, [type |-> r.type, req |-> r.req, chain |-> r.chain,
                       ok |-> TRUE, h |-> s.promises[p].handle])]
    ELSE [s EXCEPT !.reactions[p] = Append(@, r)]

\* resolve(handle): the continuations waiting for p become ready, in order.
fulfil(s, p, h) ==
    [s EXCEPT !.promises[p].state = "fulfilled",
              !.promises[p].handle = h,
              !.microtasks = @ \o
                  [i \in 1..Len(s.reactions[p]) |->
                      [type |-> s.reactions[p][i].type,
                       req |-> s.reactions[p][i].req,
                       chain |-> s.reactions[p][i].chain,
                       ok |-> TRUE, h |-> h]],
              !.reactions[p] = <<>>]

newPromise(s, kind) ==
    [s EXCEPT !.promises = Append(@, [kind |-> kind, state |-> "pending",
                                      handle |-> 0, forked |-> FALSE]),
              !.reactions = Append(@, <<>>)]

\* ------------------------------------------------ TypeScriptServiceClient
\* The continuation of _onReady.promise.then(f), for the f of the n-th call
\* of onReady.
ReadyJob(n) ==
    [type |-> "ready", req |-> NoRequest, chain |-> 0, ok |-> TRUE, h |-> 0,
     f |-> n]

\* onReady(f): f runs once _onReady.promise is resolved; the constructor
\* subscribes bufferSyncSupport.listen this way.
onReady(s) ==
    LET n == Len(s.readyInvoked) + 1
        s1 == [s EXCEPT !.readyInvoked = Append(@, 0)]
    IN IF s.readyResolved
       THEN [s1 EXCEPT !.microtasks = Append(@, ReadyJob(n))]
       ELSE s1

\* Mutant: every successful start runs the subscribers.
resolveReady_EveryStart(s) ==
    [s EXCEPT !.readyResolved = TRUE,
              !.microtasks = @ \o [n \in 1..Len(s.readyInvoked) |-> ReadyJob(n)]]

\* _onReady.resolve(): the first call resolves the promise and makes the
\* continuations of the subscribers ready; a resolved promise stays as it is.
resolveReady(s) ==
    IF s.readyResolved
    THEN s
    ELSE [s EXCEPT !.readyResolved = TRUE,
                   !.microtasks = @ \o [n \in 1..Len(s.readyInvoked) |-> ReadyJob(n)]]

resetClientVersion(s) == [s EXCEPT !.apiVersion = defaultVersion]

\* startService up to the fork; v is versionPicker.currentVersion.version.
\* getTsServerArgs sets cancellationPipeName before its first await.
startService(s, v) ==
    LET s1 == newCallbackMap(newRequestQueue([s EXCEPT !.apiVersion = v]))
        s2 == [s1 EXCEPT !.lastError = FALSE,
                         !.cancellationPipeName = IF gte222(v) THEN TRUE ELSE @]
        s3 == newPromise(s2, "start")
    IN [s3 EXCEPT !.servicePromise = Len(s3.promises)]

\* service().then(write).then(undefined, err => ...)
WriteReaction(item) == [type |-> "write", req |-> item, chain |-> 0]

service(s, item, v) ==
    IF s.servicePromise # 0
    THEN then(s, s.servicePromise, WriteReaction(item))
    ELSE IF s.lastError
    THEN [s EXCEPT !.microtasks =
            Append(@, [type |-> "write", req |-> item, chain |-> 0,
                       ok |-> FALSE, h |-> 0])]
    ELSE LET s1 == startService(s, v)
         IN then(s1, s1.servicePromise, WriteReaction(item))

sendRequest(s, item, v) ==
    LET s1 == IF item.kind # "noresp"
              THEN add(s, item.seq, item.id, item.kind = "async")
              ELSE s
    IN service(s1, item, v)

\* Mutant: the loop sends whatever is queued, outstanding response or not.
RECURSIVE sendNextRequests_NoGate(_, _)
sendNextRequests_NoGate(s, v) ==
    IF Len(s.queue) > 0
    THEN sendNextRequests_NoGate(sendRequest(shift(s), Head(s.queue), v), v)
    ELSE s

RECURSIVE sendNextRequests(_, _)
sendNextRequests(s, v) ==
    IF s.pendingResponses = 0 /\ Len(s.queue) > 0
    THEN sendNextRequests(sendRequest(shift(s), Head(s.queue), v), v)
    ELSE s

\* executeImpl for a request of the given kind; id is the owner's call
\* (0: a request the client issues itself).
executeImpl(s, kind, id, v) ==
    LET item == [seq |-> s.sequenceNumber, id |-> id, kind |-> kind]
    IN sendNextRequests(push(createRequest(s), item), v)

\* Mutant: no finally block; the callback stays registered.
tryCancelRequest_NoFinally(s, seq) ==
    IF queuedAt(s, seq) # 0
    THEN tryCancelPendingRequest(s, seq)
    ELSE IF gte222(s.apiVersion) /\ s.cancellationPipeName
    THEN [s EXCEPT !.markers = @ \cup {seq}]
    ELSE s

tryCancelRequest(s, seq) ==
    LET s1 == IF queuedAt(s, seq) # 0
              THEN tryCancelPendingRequest(s, seq)
              ELSE IF gte222(s.apiVersion) /\ s.cancellationPipeName
              THEN [s EXCEPT !.markers = @ \cup {seq}]
              ELSE s
        p == fetched(s1, seq)
        s2 == fetch(s1, seq)
    IN IF p # 0 THEN Settle(s2, p, "cancelled") ELSE s2

\* Mutant: a response with success = false fails every registered callback.
dispatchResponse_FailsAll(s, msg) ==
    LET p == fetched(s, msg.request_seq)
        s1 == fetch(s, msg.request_seq)
    IN IF p = 0 THEN s1
       ELSE IF msg.success THEN Settle(s1, p, "resolved")
       ELSE destroy(Settle(s1, p, "failed"))

\* dispatchMessage, message.type === 'response'
dispatchResponse(s, msg) ==
    LET p == fetched(s, msg.request_seq)
        s1 == fetch(s, msg.request_seq)
    IN IF p # 0
       THEN Settle(s1, p, IF msg.success THEN "resolved" ELSE "failed")
       ELSE s1

\* dispatchEvent: 'requestCompleted' resolves a callback; the other events
\* go to the emitters and leave the client's state alone.
dispatchEvent(s, msg) ==
    IF msg.event = "requestCompleted"
    THEN LET p == fetched(s, msg.request_seq)
             s1 == fetch(s, msg.request_seq)
         IN IF p # 0 THEN Settle(s1, p, "resolved") ELSE s1
    ELSE s

\* Mutant: a message does not drain the queue.
dispatchMessage_NoDrain(s, msg, v) ==
    IF msg.type = "response" THEN dispatchResponse(s, msg)
    ELSE IF msg.type = "event" THEN dispatchEvent(s, msg)
    ELSE s

\* Mutant: the error thrown for an unknown type skips sendNextRequests.
dispatchMessage_NoFinally(s, msg, v) ==
    IF msg.type = "response" THEN sendNextRequests(dispatchResponse(s, msg), v)
    ELSE IF msg.type = "event" THEN sendNextRequests(dispatchEvent(s, msg), v)
    ELSE s

\* msg.type is "response", "event" or anything else (which throws); the
\* finally block runs sendNextRequests in each case.
dispatchMessage(s, msg, v) ==
    LET s1 == IF msg.type = "response" THEN dispatchResponse(s, msg)
              ELSE IF msg.type = "event" THEN dispatchEvent(s, msg)
              ELSE s
    IN sendNextRequests(s1, v)

setCompilerOptionsForInferredProjects(s, v) ==
    IF ~gte206(s.apiVersion) THEN s
    ELSE executeImpl(s, "noresp", 0, v)

serviceStarted(s, v) ==
    setCompilerOptionsForInferredProjects(executeImpl(s, "noresp", 0, v), v)

\* Mutants: the fifth restart is already one too many; no exit counts as
\* one within a minute.
tooManyRestarts_AtLimit(n) == n >= RestartLimit
diedWithinAMinute_Never(d) == FALSE

\* this.numberRestarts > 5, diff < 10 * 1000, diff < 60 * 1000
tooManyRestarts(n) == n > RestartLimit
diedRightAfterStart(d) == d = DiffFast
diedWithinAMinute(d) == d = DiffFast \/ d = DiffMedium

serviceExited(s, restart, v) ==
    LET s1 == newCallbackMap(destroy([s EXCEPT !.servicePromise = 0]))
        n == s.numberRestarts + 1
        storm == tooManyRestarts(n)
        fatal == storm /\ diedRightAfterStart(s.diff)
        warn == storm /\ ~diedRightAfterStart(s.diff) /\ diedWithinAMinute(s.diff)
        log(started, notice) ==
            [restart |-> restart, diff |-> s.diff, count |-> n,
             started |-> started, notice |-> notice,
             queued |-> {s.queue[i].id : i \in 1..Len(s.queue)} \ {0}]
    IN IF ~restart
       THEN [resetClientVersion(s1) EXCEPT
                !.exits = Append(@, [log(FALSE, "none") EXCEPT !.count = s.numberRestarts])]
       ELSE LET s2 == [s1 EXCEPT !.numberRestarts = IF storm THEN 0 ELSE n,
                                 !.diff = IF fatal \/ warn THEN DiffFast ELSE @,
                                 !.exits = Append(@, log(~fatal,
                                     IF fatal THEN "fatal"
                                     ELSE IF warn THEN "warning" ELSE "none"))]
            IN IF fatal THEN resetClientVersion(s2)
               ELSE startService(s2, v)

kill(s, h) == [s EXCEPT !.handles[h].killed = TRUE]

restartTsServer_OnlyWithService(s, v) ==
    IF s.servicePromise # 0
    THEN LET s1 == newPromise(s, "chain")
             c == Len(s1.promises)
             s2 == then(s1, s.servicePromise,
                        [type |-> "restart", req |-> NoRequest, chain |-> c])
         IN [s2 EXCEPT !.servicePromise = c]
    ELSE s

restartTsServer(s, v) ==
    IF s.servicePromise # 0
    THEN LET s1 == newPromise(s, "chain")
             c == Len(s1.promises)
             s2 == then(s1, s.servicePromise,
                        [type |-> "restart", req |-> NoRequest, chain |-> c])
         IN [s2 EXCEPT !.servicePromise = c]
    ELSE startService(s, v)

\* The continuations of restartTsServer: kill the process, then start().
\* The promise start() returns settles the promise of the chain.
restartContinuation(s, job, v) ==
    LET s1 == resetClientVersion(kill([s EXCEPT !.isRestarting = TRUE], job.h))
        s2 == startService(s1, v)
    IN then(s2, s2.servicePromise,
            [type |-> "resolve", req |-> NoRequest, chain |-> job.chain])

\* The continuations of sendRequest.
writeContinuation(s, job) ==
    IF job.ok
    THEN [s EXCEPT !.handles[job.h].written = Append(@, job.req)]
    ELSE LET callback == fetched(s, job.req.seq)
             s1 == fetch(s, job.req.seq)
         IN IF callback # 0 THEN Settle(s1, callback, "error") ELSE s1

runMicrotask(s, v) ==
    LET job == Head(s.microtasks)
        s1 == [s EXCEPT !.microtasks = Tail(@)]
    IN IF job.type = "write" THEN writeContinuation(s1, job)
       ELSE IF job.type = "restart" THEN restartContinuation(s1, job, v)
       ELSE IF job.type = "resolve" THEN fulfil(s1, job.chain, job.h)
       ELSE IF job.type = "ready" THEN [s1 EXCEPT !.readyInvoked[job.f] = @ + 1]
       ELSE kill(s1, job.h)

ensureServiceStarted(s, v) ==
    IF s.servicePromise = 0 THEN startService(s, v) ELSE s

dispose(s) ==
    LET s1 == [s EXCEPT !.disposed = TRUE]
    IN IF s.servicePromise # 0
       THEN then(s1, s.servicePromise,
                 [type |-> "kill", req |-> NoRequest, chain |-> 0])
       ELSE s1

\* The callback electron.fork calls.
forkFailed(s, p) ==
    resetClientVersion([s EXCEPT !.lastError = TRUE,
                                 !.promises[p].forked = TRUE])

forkSucceeded(s, p, v) ==
    LET h == Len(s.handles) + 1
        s1 == [s EXCEPT !.promises[p].forked = TRUE,
                        !.handles = Append(@, [state |-> "running",
                                               killed |-> FALSE,
                                               errored |-> FALSE,
                                               readerError |-> FALSE,
                                               written |-> <<>>,
                                               replied |-> EmptyMap]),
                        !.diff = DiffFast]
    IN serviceStarted(fulfil(resolveReady(s1), p, h), v)

\* The onError callback given to handle.createReader: it logs 'ReaderError'.
onReaderError(s, h) == [s EXCEPT !.handles[h].readerError = TRUE]

\* handle.onError
onError(s, h, v) ==
    serviceExited([s EXCEPT !.lastError = TRUE, !.handles[h].errored = TRUE],
                  FALSE, v)

\* handle.onExit
onExit(s, h, v) ==
    LET s1 == serviceExited([s EXCEPT !.handles[h].state = "exited"],
                            ~s.isRestarting, v)
    IN [s1 EXCEPT !.isRestarting = FALSE]

\* ------------------------------------------------------------ the actions
\* An environment e bounds the actions: e.calls (calls of the owner),
\* e.starts (startService calls), e.restarts (restartTsServer calls),
\* e.versions (what the version picker may answer) and e.success (the
\* success flags of the worker's responses).
NumStarts(s) == Cardinality({p \in 1..Len(s.promises) : s.promises[p].kind = "start"})

\* The actions that would start a service beyond the bound are disabled.
Within(s, e) == NumStarts(s) <= e.starts

Idle == microtasks = <<>>

Running(h) == handles[h].state = "running"

Message(type, event, request_seq, success) ==
    [type |-> type, event |-> event, request_seq |-> request_seq,
     success |-> success]

Init ==
    /\ queue = <<>>
    /\ sequenceNumber = 0
    /\ callbacks = EmptyMap
    /\ asyncCallbacks = EmptyMap
    /\ pendingResponses = 0
    /\ servicePromise = 0
    /\ lastError = FALSE
    /\ numberRestarts = 0
    /\ isRestarting = FALSE
    /\ diff = DiffFast
    /\ apiVersion = defaultVersion
    /\ cancellationPipeName = FALSE
    /\ readyResolved = FALSE
    /\ readyInvoked = <<0>>
    /\ disposed = FALSE
    /\ promises = <<>>
    /\ reactions = <<>>
    /\ microtasks = <<>>
    /\ handles = <<>>
    /\ calls = <<>>
    /\ exits = <<>>
    /\ markers = {}
    /\ restartCalls = 0

\* restartTsServer has replaced servicePromise by the promise of the session
\* to come, and that session does not run yet: servicePromise is the chain
\* restartTsServer built, or the promise of the startService its
\* continuation called.
InRestartWindow ==
    IF servicePromise = 0 THEN FALSE
    ELSE /\ promises[servicePromise].state = "pending"
         /\ \/ promises[servicePromise].kind = "chain"
            \/ \E i \in 1..Len(reactions[servicePromise]) :
                  reactions[servicePromise][i].type = "resolve"

\* execute ("sync"), executeAsync ("async"), executeWithoutWaitingForResponse
\* ("noresp") called by the owner.
Execute(kind, e) ==
    /\ Len(calls) < e.calls
    /\ \E v \in e.versions :
        LET id == Len(calls) + 1
            s0 == [Cur EXCEPT !.calls = Append(@,
                     [kind |-> kind, seq |-> sequenceNumber,
                      result |-> IF kind = "noresp" THEN "none" ELSE "pending",
                      settles |-> 0, cancelled |-> "no",
                      inRestart |-> InRestartWindow])]
            s1 == executeImpl(s0, kind, id, v)
        IN Within(s1, e) /\ Commit(s1)

\* The cancellation token of call id is signalled: the listener executeImpl
\* registered runs tryCancelRequest(request.seq).
Cancel(id) ==
    /\ calls[id].kind # "noresp"
    /\ calls[id].cancelled = "no"
    /\ LET where == IF \E i \in 1..Len(queue) : queue[i].id = id
                    THEN "queued" ELSE "sent"
           s0 == [Cur EXCEPT !.calls[id].cancelled = where]
       IN Commit(tryCancelRequest(s0, calls[id].seq))

RestartTsServer(e) ==
    /\ restartCalls < e.restarts
    /\ \E v \in e.versions :
        LET s1 == restartTsServer([Cur EXCEPT !.restartCalls = @ + 1], v)
        IN Within(s1, e) /\ Commit(s1)

EnsureServiceStarted(e) ==
    /\ servicePromise = 0
    /\ \E v \in e.versions :
        LET s1 == ensureServiceStarted(Cur, v)
        IN Within(s1, e) /\ Commit(s1)

\* The owner subscribes to the ready notification.
OnReady(e) ==
    /\ Len(readyInvoked) < e.subscribers
    /\ Commit(onReady(Cur))

Dispose ==
    /\ ~disposed
    /\ Commit(dispose(Cur))

RunMicrotask(e) ==
    /\ microtasks # <<>>
    /\ \E v \in e.versions :
        LET s1 == runMicrotask(Cur, v)
        IN Within(s1, e) /\ Commit(s1)

ForkSucceeded(e) ==
    /\ Idle
    /\ \E p \in 1..Len(promises), v \in e.versions :
        /\ promises[p].kind = "start"
        /\ ~promises[p].forked
        /\ LET s1 == forkSucceeded(Cur, p, v)
           IN Within(s1, e) /\ Commit(s1)

ForkFailed ==
    /\ Idle
    /\ \E p \in 1..Len(promises) :
        /\ promises[p].kind = "start"
        /\ ~promises[p].forked
        /\ Commit(forkFailed(Cur, p))

\* The requests handle h has received and not answered, other than the
\* asynchronous ones.
Unanswered(h) ==
    {i \in (1..Len(handles[h].written)) \ DOMAIN handles[h].replied :
        handles[h].written[i].kind # "async"}

\* The worker handles its requests in the order received: it answers the
\* first one it has not answered yet.  (The success flag of the answer to a
\* request without callback reaches nobody: one value stands for both.)
Response(e) ==
    /\ Idle
    /\ \E h \in 1..Len(handles), success \in e.success, v \in e.versions :
        /\ Running(h)
        /\ \E i \in Unanswered(h) :
            /\ \A j \in Unanswered(h) : i <= j
            /\ handles[h].written[i].kind = "noresp" => success
            /\ LET req == handles[h].written[i]
                   s0 == [Cur EXCEPT !.handles[h].replied = MapSet(@, i, success)]
                   s1 == dispatchMessage(s0,
                            Message("response", "", req.seq, success), v)
               IN Within(s1, e) /\ Commit(s1)

\* The worker completes an asynchronous request it has received.
RequestCompleted(e) ==
    /\ Idle
    /\ \E h \in 1..Len(handles), v \in e.versions :
        /\ Running(h)
        /\ \E i \in (1..Len(handles[h].written)) \ DOMAIN handles[h].replied :
            /\ handles[h].written[i].kind = "async"
            /\ LET req == handles[h].written[i]
                   s0 == [Cur EXCEPT !.handles[h].replied = MapSet(@, i, TRUE)]
                   s1 == dispatchMessage(s0,
                            Message("event", "requestCompleted", req.seq, TRUE), v)
               IN Within(s1, e) /\ Commit(s1)

\* Any other event, or a message that is neither a response nor an event.
OtherMessage(e) ==
    /\ Idle
    /\ \E h \in 1..Len(handles), type \in {"event", "unknown"}, v \in e.versions :
        /\ Running(h)
        /\ LET s1 == dispatchMessage(Cur, Message(type, "other", 0, TRUE), v)
           IN Within(s1, e) /\ Commit(s1)

\* The process of handle h exits: it crashed, or it was killed.
Exit(e) ==
    /\ Idle
    /\ \E h \in 1..Len(handles), v \in e.versions :
        /\ Running(h)
        /\ LET s1 == onExit(Cur, h, v)
           IN Within(s1, e) /\ Commit(s1)

\* The 'error' event of the child process of handle h.
Error(e) ==
    /\ Idle
    /\ \E h \in 1..Len(handles), v \in e.versions :
        /\ Running(h)
        /\ ~handles[h].errored
        /\ LET s1 == onError(Cur, h, v)
           IN Within(s1, e) /\ Commit(s1)

\* The reader of the output of handle h reports an error.
ReaderError ==
    /\ Idle
    /\ \E h \in 1..Len(handles) :
        /\ Running(h)
        /\ ~handles[h].readerError
        /\ Commit(onReaderError(Cur, h))

\* Time passes: Date.now() - lastStart reaches the next interval.
Tick ==
    /\ Idle
    /\ diff < DiffSlow
    /\ diff' = diff + 1
    /\ UNCHANGED <<queue, sequenceNumber, callbacks, asyncCallbacks,
                   pendingResponses, servicePromise, lastError, numberRestarts,
                   isRestarting, apiVersion,
                   cancellationPipeName, readyResolved, readyInvoked,
                   disposed, promises,
                   reactions, microtasks, handles, calls, exits, markers,
                   restartCalls>>

\* ----------------------------------------------------- the specifications
\* Spec: the sessions of a client, their crashes and restarts.
Env ==
    [calls |-> MaxCalls, starts |-> MaxStarts, restarts |-> MaxRestartCalls,
     versions |-> Latest, success |-> BOOLEAN]

Next ==
    \/ Execute("sync", Env)
    \/ Execute("async", Env)
    \/ \E id \in 1..Len(calls) : Cancel(id)
    \/ RestartTsServer(Env)
    \/ EnsureServiceStarted(Env)
    \/ RunMicrotask(Env)
    \/ ForkSucceeded(Env)
    \/ Response(Env)
    \/ RequestCompleted(Env)
    \/ Exit(Env)

Spec == Init /\ [][Next]_vars

\* SpecSession: the requests of one session that starts and keeps running.
SessionEnv ==
    [calls |-> SessionCalls, starts |-> 1, restarts |-> 0,
     versions |-> Versions, success |-> BOOLEAN]

NextSession ==
    \/ Execute("sync", SessionEnv)
    \/ Execute("async", SessionEnv)
    \/ Execute("noresp", SessionEnv)
    \/ \E id \in 1..Len(calls) : Cancel(id)
    \/ EnsureServiceStarted(SessionEnv)
    \/ RunMicrotask(SessionEnv)
    \/ ForkSucceeded(SessionEnv)
    \/ Response(SessionEnv)
    \/ RequestCompleted(SessionEnv)
    \/ OtherMessage(SessionEnv)

SpecSession == Init /\ [][NextSession]_vars

\* SpecStartup: execute calls made before the session runs, with a worker
\* that answers.  The event loop runs every continuation, the fork completes
\* and the worker answers every request it has received.
StartupEnv ==
    [calls |-> StartupCalls, starts |-> 1, restarts |-> 0,
     versions |-> Versions, success |-> BOOLEAN]

NotYetRunning ==
    IF servicePromise = 0 THEN TRUE
    ELSE promises[servicePromise].state = "pending"

ExecuteBeforeRunning == NotYetRunning /\ Execute("sync", StartupEnv)

NextStartup ==
    \/ ExecuteBeforeRunning
    \/ EnsureServiceStarted(StartupEnv)
    \/ RunMicrotask(StartupEnv)
    \/ ForkSucceeded(StartupEnv)
    \/ Response(StartupEnv)

SpecStartup ==
    /\ Init
    /\ [][NextStartup]_vars
    /\ WF_vars(RunMicrotask(StartupEnv))
    /\ WF_vars(ForkSucceeded(StartupEnv))
    /\ WF_vars(Response(StartupEnv))

\* SpecStorm: a worker that keeps crashing, and the time between its start
\* and its exit.
StormEnv ==
    [calls |-> 0, starts |-> StormStarts, restarts |-> 0,
     versions |-> Latest, success |-> {TRUE}]

NextStorm ==
    \/ EnsureServiceStarted(StormEnv)
    \/ RunMicrotask(StormEnv)
    \/ ForkSucceeded(StormEnv)
    \/ Exit(StormEnv)
    \/ Tick

SpecStorm == Init /\ [][NextStorm]_vars

\* SpecRestart: restartTsServer called again and again; the only exits are
\* those of the processes restartTsServer killed.
RestartEnv ==
    [calls |-> 0, starts |-> RestartStarts, restarts |-> RestartCalls,
     versions |-> Latest, success |-> {TRUE}]

\* The process of a handle that was killed exits.
KilledExit(e) ==
    /\ Idle
    /\ \E h \in 1..Len(handles), v \in e.versions :
        /\ Running(h)
        /\ handles[h].killed
        /\ LET s1 == onExit(Cur, h, v)
           IN Within(s1, e) /\ Commit(s1)

NextRestart ==
    \/ EnsureServiceStarted(RestartEnv)
    \/ RestartTsServer(RestartEnv)
    \/ RunMicrotask(RestartEnv)
    \/ ForkSucceeded(RestartEnv)
    \/ KilledExit(RestartEnv)

SpecRestart == Init /\ [][NextRestart]_vars

\* SpecFailure: forks that fail, and errors of the reader and of the process.
FailureEnv ==
    [calls |-> FailureCalls, starts |-> FailureStarts, restarts |-> 0,
     versions |-> Latest, success |-> BOOLEAN]

NextFailure ==
    \/ Execute("sync", FailureEnv)
    \/ Execute("async", FailureEnv)
    \/ EnsureServiceStarted(FailureEnv)
    \/ RunMicrotask(FailureEnv)
    \/ ForkSucceeded(FailureEnv)
    \/ ForkFailed
    \/ Response(FailureEnv)
    \/ ReaderError
    \/ Error(FailureEnv)

SpecFailure == Init /\ [][NextFailure]_vars

\* SpecQueued: a worker that dies right after each start, and calls of
\* execute made at any time, before and after the restarts are given up.
QueuedEnv ==
    [calls |-> QueuedCalls, starts |-> QueuedStarts, restarts |-> 0,
     versions |-> Latest, success |-> {TRUE}]

NextQueued ==
    \/ EnsureServiceStarted(QueuedEnv)
    \/ Execute("sync", QueuedEnv)
    \/ RunMicrotask(QueuedEnv)
    \/ ForkSucceeded(QueuedEnv)
    \/ Exit(QueuedEnv)

SpecQueued == Init /\ [][NextQueued]_vars

\* SpecDispose: the owner disposes the client at any time and makes no call
\* afterwards; the worker answers, and it exits on its own or when killed.
DisposeEnv ==
    [calls |-> DisposeCalls, starts |-> DisposeStarts, restarts |-> 0,
     versions |-> Latest, success |-> {TRUE}]

ExecuteBeforeDispose == ~disposed /\ Execute("sync", DisposeEnv)

StartBeforeDispose == ~disposed /\ EnsureServiceStarted(DisposeEnv)

NextDispose ==
    \/ StartBeforeDispose
    \/ ExecuteBeforeDispose
    \/ Dispose
    \/ RunMicrotask(DisposeEnv)
    \/ ForkSucceeded(DisposeEnv)
    \/ Response(DisposeEnv)
    \/ Exit(DisposeEnv)

SpecDispose == Init /\ [][NextDispose]_vars

\* SpecCallbackMap: the operations of one CallbackMap called in any order.
\* The seq of a callback is the seq of its request, which createRequest
\* numbers, so no seq is registered twice.
MapAdd(isAsync) ==
    /\ Len(calls) < MapCalls
    /\ LET id == Len(calls) + 1
           s0 == [Cur EXCEPT !.calls = Append(@,
                    [kind |-> IF isAsync THEN "async" ELSE "sync",
                     seq |-> sequenceNumber, result |-> "pending",
                     settles |-> 0, cancelled |-> "no", inRestart |-> FALSE])]
       IN Commit(add(createRequest(s0), sequenceNumber, id, isAsync))

\* fetch(seq), whose caller invokes the callback it gets.
MapFetch(seq) ==
    LET callback == fetched(Cur, seq)
        s1 == fetch(Cur, seq)
    IN Commit(IF callback # 0 THEN Settle(s1, callback, "ok") ELSE s1)

\* destroy(e), called while a callback registered has not been invoked.
MapDestroy ==
    /\ \E id \in MapValues(callbacks) \cup MapValues(asyncCallbacks) :
            calls[id].result = "pending"
    /\ Commit(destroy(Cur))

NextCallbackMap ==
    \/ \E isAsync \in BOOLEAN : MapAdd(isAsync)
    \/ \E seq \in 0..(MapCalls - 1) : MapFetch(seq)
    \/ MapDestroy

SpecCallbackMap == Init /\ [][NextCallbackMap]_vars

\* SpecReady: the ready notification over starts that succeed and fail,
\* crashes and a restart; the job queue is weakly fair.
ReadyEnv ==
    [calls |-> 0, starts |-> ReadyStarts, restarts |-> 1,
     versions |-> Latest, success |-> {TRUE}, subscribers |-> ReadySubscribers]

\* restartTsServer, called while the service it starts is within the bound.
RestartWithinBound == NumStarts(Cur) < ReadyStarts /\ RestartTsServer(ReadyEnv)

NextReady ==
    \/ OnReady(ReadyEnv)
    \/ EnsureServiceStarted(ReadyEnv)
    \/ RestartWithinBound
    \/ RunMicrotask(ReadyEnv)
    \/ ForkSucceeded(ReadyEnv)
    \/ ForkFailed
    \/ Exit(ReadyEnv)

SpecReady ==
    /\ Init
    /\ [][NextReady]_vars
    /\ WF_vars(RunMicrotask(ReadyEnv))

\* SpecRecovery: a worker that dies right after each start until the restarts
\* are given up; then the owner calls restartTsServer and makes its calls,
\* and the worker started then keeps running and answers.
RecoveryEnv ==
    [calls |-> RecoveryCalls, starts |-> RecoveryStarts, restarts |-> 1,
     versions |-> Latest, success |-> BOOLEAN]

\* serviceExited has shown the fatal notice and has not called startService,
\* and nothing has started a service since.
Suppressed ==
    /\ exits # <<>>
    /\ exits[Len(exits)].notice = "fatal"
    /\ servicePromise = 0

FirstStart == exits = <<>> /\ EnsureServiceStarted(RecoveryEnv)

CrashBeforeRecovery == restartCalls = 0 /\ Exit(RecoveryEnv)

RestartAfterSuppression == Suppressed /\ RestartTsServer(RecoveryEnv)

ExecuteAfterRestart == restartCalls > 0 /\ Execute("sync", RecoveryEnv)

NextRecovery ==
    \/ FirstStart
    \/ CrashBeforeRecovery
    \/ RestartAfterSuppression
    \/ ExecuteAfterRestart
    \/ RunMicrotask(RecoveryEnv)
    \/ ForkSucceeded(RecoveryEnv)
    \/ Response(RecoveryEnv)

\* The states in which RunMicrotask, ForkSucceeded and Response can take a
\* step: the guards of these actions.
RunMicrotaskEnabled(e) ==
    /\ microtasks # <<>>
    /\ \E v \in e.versions : Within(runMicrotask(Cur, v), e)

ForkSucceededEnabled(e) ==
    /\ Idle
    /\ \E p \in 1..Len(promises), v \in e.versions :
        /\ promises[p].kind = "start"
        /\ ~promises[p].forked
        /\ Within(forkSucceeded(Cur, p, v), e)

ResponseEnabled(e) ==
    /\ Idle
    /\ \E h \in 1..Len(handles), success \in e.success, v \in e.versions :
        /\ Running(h)
        /\ \E i \in Unanswered(h) :
            /\ \A j \in Unanswered(h) : i <= j
            /\ handles[h].written[i].kind = "noresp" => success
            /\ LET req == handles[h].written[i]
                   s0 == [Cur EXCEPT !.handles[h].replied = MapSet(@, i, success)]
               IN Within(dispatchMessage(s0,
                            Message("response", "", req.seq, success), v), e)

\* Weak fairness of the job queue, the fork callback and the worker's
\* answers, with the enabling condition of each action written out.
SpecRecovery ==
    /\ Init
    /\ [][NextRecovery]_vars
    /\ ([]<>(~RunMicrotaskEnabled(RecoveryEnv))
            \/ []<><<RunMicrotask(RecoveryEnv)>>_vars)
    /\ ([]<>(~ForkSucceededEnabled(RecoveryEnv))
            \/ []<><<ForkSucceeded(RecoveryEnv)>>_vars)
    /\ ([]<>(~ResponseEnabled(RecoveryEnv))
            \/ []<><<Response(RecoveryEnv)>>_vars)

\* ------------------------------------------------------------- the claims
Handles == 1..Len(handles)
Calls == 1..Len(calls)

\* The places of handle h's requests of kind "sync" it has not answered.
SyncInFlight(h) ==
    {i \in (1..Len(handles[h].written)) \ DOMAIN handles[h].replied :
        handles[h].written[i].kind = "sync"}

InQueue(id) == \E i \in 1..Len(queue) : queue[i].id = id

WrittenTo(h, id) ==
    \E i \in 1..Len(handles[h].written) : handles[h].written[i].id = id

Written(id) == \E h \in Handles : WrittenTo(h, id)

\* The request of call id waits for a service promise.
WaitsForService(id) ==
    \/ \E i \in 1..Len(microtasks) :
          microtasks[i].type = "write" /\ microtasks[i].req.id = id
    \/ \E p \in 1..Len(reactions) : \E i \in 1..Len(reactions[p]) :
          reactions[p][i].type = "write" /\ reactions[p][i].req.id = id

\* C1: a worker is never written a second request of execute while it has
\* not answered an earlier one: of the requests of execute a handle has
\* received, at most one is unanswered.
C1_OneSyncInFlight ==
    \A h \in Handles : Cardinality(SyncInFlight(h)) <= 1

\* The steps in which handle h answers the request at place i.
Answers(h, i) ==
    /\ h \in Handles
    /\ i \in DOMAIN handles'[h].replied
    /\ i \notin DOMAIN handles[h].replied

\* C3: the response to the request of an execute call settles the promise of
\* that call, resolved if success and rejected if not, and the promise of
\* no other call.
C3_ResponseSettlesItsCall ==
    [][\A h \in Handles : \A i \in 1..Len(handles[h].written) :
          (Answers(h, i) /\ handles[h].written[i].kind = "sync") =>
             LET id == handles[h].written[i].id
             IN /\ \A other \in Calls \ {id} :
                      calls'[other].result = calls[other].result
                /\ (calls[id].result = "pending" /\ calls[id].cancelled = "no")
                      => calls'[id].result =
                            IF handles'[h].replied[i] THEN "resolved" ELSE "failed"
      ]_vars

\* The steps in which the process of handle h exits without a restart()
\* having killed it.
Crashes(h) ==
    /\ h \in Handles
    /\ handles[h].state = "running"
    /\ handles'[h].state = "exited"
    /\ ~isRestarting

\* C4: a crash rejects every promise pending at that moment exactly once:
\* once the exit is handled, no promise of an execute or executeAsync call
\* made before it is pending, and no callback was invoked twice.
C4_CrashRejectsAllPending ==
    [][\A h \in Handles : Crashes(h) =>
          \A id \in Calls : calls[id].kind # "noresp" =>
             /\ calls'[id].result # "pending"
             /\ calls'[id].settles <= 1
      ]_vars

\* C5: a request whose token is signalled while it is in the queue is
\* removed from the queue and is not written to any worker afterwards.
C5_CancelledInQueueNeverWritten ==
    \A id \in Calls : calls[id].cancelled = "queued" =>
        /\ ~InQueue(id)
        /\ ~WaitsForService(id)
        /\ ~Written(id)

\* A call was cancelled in the queue, and a worker has received a request
\* made before it and one made after it.
C5_Witness ==
    \E id \in Calls, h \in Handles :
        /\ calls[id].cancelled = "queued"
        /\ \E i, j \in 1..Len(handles[h].written) :
              /\ i < j
              /\ handles[h].written[i].seq < calls[id].seq
              /\ handles[h].written[j].seq > calls[id].seq

\* C6: the promise of a call whose token is signalled while its request is
\* in the queue is rejected with the cancellation error.
C6_CancelledInQueueRejected ==
    \A id \in Calls : calls[id].cancelled = "queued" =>
        calls[id].result = "cancelled"

\* The seqs handle h received are strictly increasing.
SeqsIncrease(h) ==
    \A i, j \in 1..Len(handles[h].written) :
        i < j => handles[h].written[i].seq < handles[h].written[j].seq

\* C8: the seqs of the requests written to one worker are pairwise distinct
\* and strictly increasing in the order written, and the requests created
\* after a session replacement are numbered from 0.
C8_SeqsIncreaseWithinSession ==
    [][/\ \A h \in 1..Len(handles') : SeqsIncrease(h)'
       /\ NumStarts(Cur)' > NumStarts(Cur) => sequenceNumber' <= 1
      ]_vars

\* ------------------------------------------------------------------- C2
\* The calls of the owner among the requests handle h received, in the
\* order received.
CallsWrittenTo(h) ==
    SelectSeq([i \in 1..Len(handles[h].written) |-> handles[h].written[i].id],
              LAMBDA id : id # 0)

\* Every call made so far has been written, each once, in call order.
WrittenInCallOrder ==
    \A h \in Handles : \A i, j \in 1..Len(CallsWrittenTo(h)) :
        i < j => CallsWrittenTo(h)[i] < CallsWrittenTo(h)[j]

\* C2: of the execute calls made before the worker runs (no session yet, or
\* a session still starting), each one is eventually written to the worker
\* once the session runs and the worker answers what it receives; the worker
\* receives them in call order, none twice.
C2_AllWrittenInCallOrder ==
    /\ \A id \in 1..StartupCalls : (Len(calls) >= id) ~> Written(id)
    /\ []WrittenInCallOrder

\* Every call that could be made was made before the worker ran, one of them
\* waited in the queue for a response, and the worker has them all.
C2_Witness ==
    /\ Len(calls) = StartupCalls
    /\ \A id \in Calls : Written(id)
    /\ \E h \in Handles : DOMAIN handles[h].replied # {}

\* ------------------------------------------------------------------- C7
\* The kinds that register no callback of execute.
Ungated == {"async", "noresp"}

\* C7 as stated: a request of executeAsync or of
\* executeWithoutWaitingForResponse does not wait in the queue while the
\* response to a request of execute is outstanding.
C7_UngatedNeverWaits ==
    ~(/\ pendingResponses = 1
      /\ \E i \in 1..Len(queue) : queue[i].kind \in Ungated)

\* The steps that end with sendNextRequests: a call of the owner, a message
\* of the worker, the start of the session.
Drains ==
    \/ Len(calls') > Len(calls)
    \/ Len(handles') > Len(handles)
    \/ \E h \in Handles : handles'[h].replied # handles[h].replied

\* The owner makes a call of one of the ungated kinds while a response to a
\* request of execute is outstanding.
EnqueuesUngated ==
    /\ Len(calls') = Len(calls) + 1
    /\ calls'[Len(calls')].kind \in Ungated
    /\ pendingResponses = 1

\* C7, amended: the requests of executeAsync and of
\* executeWithoutWaitingForResponse pass the gate like every other request
\* but do not close it.  One made while pendingResponses = 1 stays in the
\* queue; and whenever a drain leaves a request in the queue, the callback
\* of a request of execute is outstanding.
C7_UngatedWaitsButHoldsNothing ==
    [][/\ EnqueuesUngated =>
             \E i \in 1..Len(queue') : queue'[i].id = Len(calls')
       /\ (Drains /\ queue' # <<>>) =>
             (pendingResponses' > 0 /\ DOMAIN callbacks' # {})
      ]_vars

\* An asynchronous request has been written, and a later call of an ungated
\* kind waits in the queue behind an outstanding request of execute.
C7_Witness ==
    /\ pendingResponses = 1
    /\ \E i \in 1..Len(queue) : queue[i].kind \in Ungated /\ queue[i].id # 0
    /\ \E h \in Handles : \E i \in 1..Len(handles[h].written) :
          handles[h].written[i].kind = "async"

\* ------------------------------------------------------------------- C9
Exits == 1..Len(exits)

\* The exit was unexpected and came less than 10 seconds after the start.
FastCrash(n) == exits[n].restart /\ exits[n].diff = DiffFast

\* The exits i..n are unexpected exits right after the start, and i is
\* the first of their run.
FastRun(i, n) ==
    /\ i <= n
    /\ \A k \in i..n : FastCrash(k)
    /\ i > 1 => ~FastCrash(i - 1)

\* What the claim says of the n-th exit of a run that began at exit i.
FiveRestartsThenNone(i, n) ==
    /\ n - i < RestartLimit => exits[n].started
    /\ n - i = RestartLimit => ~exits[n].started /\ exits[n].notice = "fatal"

\* C9 as stated: of six unexpected exits in a row, each less than 10 seconds
\* after the start, the first five are followed by a restart and the sixth
\* is not, with the fatal notice.
C9_SixFastCrashes ==
    \A i, n \in Exits :
        (FastRun(i, n) /\ n - i <= RestartLimit) => FiveRestartsThenNone(i, n)

\* C9, amended: the same, for a run of exits that begins with a restart
\* count of 0 (a new client, or the exit after the one that reset the count).
C9_SixFastCrashesFromZero ==
    \A i, n \in Exits :
        (FastRun(i, n) /\ n - i <= RestartLimit /\ exits[i].count = 1)
            => FiveRestartsThenNone(i, n)

\* Six fast crashes of a new client: five restarts, then the fatal notice.
C9_Witness ==
    /\ Len(exits) >= RestartLimit + 1
    /\ FastRun(1, RestartLimit + 1)
    /\ \A k \in 1..RestartLimit : exits[k].started
    /\ exits[RestartLimit + 1].notice = "fatal"

\* ------------------------------------------------------------------ C10
\* The steps in which an unexpected exit is handled between 10 and 60
\* seconds after the start.
MediumCrash ==
    /\ Len(exits') = Len(exits) + 1
    /\ exits'[Len(exits')].restart
    /\ exits'[Len(exits')].diff = DiffMedium

\* C10: an unexpected exit between 10 and 60 seconds after the start is
\* followed by a restart; the warning is shown at exactly those at which the
\* count of restarts exceeds 5, and there the count is reset to 0.
C10_MediumCrashes ==
    [][MediumCrash =>
          LET exit == exits'[Len(exits')]
              warned == exit.notice = "warning"
          IN /\ exit.started
             /\ NumStarts(Cur)' = NumStarts(Cur) + 1
             /\ servicePromise' # 0
             /\ exit.count = numberRestarts + 1
             /\ warned <=> exit.count > RestartLimit
             /\ ~warned => exit.notice = "none"
             /\ numberRestarts' = IF warned THEN 0 ELSE exit.count
      ]_vars

\* A crash within a minute was the sixth since the reset: the warning, and
\* a restart; and an earlier one went without a warning.
C10_Witness ==
    \E m, n \in Exits :
        /\ exits[n].restart /\ exits[n].diff = DiffMedium
        /\ exits[n].notice = "warning" /\ exits[n].started
        /\ exits[m].restart /\ exits[m].diff = DiffMedium
        /\ exits[m].notice = "none" /\ exits[m].started

\* ------------------------------------------------------------------ C11
\* The steps in which a process that restartTsServer killed exits.
ExitsAfterRestart(h) ==
    /\ h \in Handles
    /\ handles[h].killed
    /\ handles[h].state = "running"
    /\ handles'[h].state = "exited"

\* C11: the exit of a process that restartTsServer killed is not counted as
\* a crash: the handler of the exit leaves numberRestarts as it is and does
\* not call startService.
C11_RestartExitNotCounted ==
    [][\A h \in Handles : ExitsAfterRestart(h) =>
          /\ numberRestarts' = numberRestarts
          /\ NumStarts(Cur)' = NumStarts(Cur)
      ]_vars

\* ------------------------------------------------------------------ C12
\* The steps in which the token of call id is signalled after its request
\* was written to a worker.
CancelsWritten(id) ==
    /\ id \in Calls
    /\ Written(id)
    /\ calls[id].cancelled = "no"
    /\ calls'[id].cancelled = "sent"

\* tryCancelRequest can tell the worker: the version has the cancellation
\* pipe and the pipe was named.
SideChannel == gte222(apiVersion) /\ cancellationPipeName

\* The steps in which a worker answers a request of a call that was
\* cancelled after it was written.
AnswersCancelled ==
    \E h \in Handles : \E i \in 1..Len(handles[h].written) :
        /\ Answers(h, i)
        /\ handles[h].written[i].id # 0
        /\ calls[handles[h].written[i].id].cancelled = "sent"

\* C12: with the side channel, the signal of the token of a request already
\* written rejects the promise of its call at once with the cancellation
\* error, and the response that comes later for it invokes no callback.
C12_CancelWrittenRejectsAtOnce ==
    [][/\ \A id \in Calls :
             (CancelsWritten(id) /\ SideChannel /\ calls[id].result = "pending")
                => calls'[id].result = "cancelled"
       /\ AnswersCancelled =>
             \A id \in Calls : calls'[id].settles = calls[id].settles
      ]_vars

\* ------------------------------------------------------------------ C13
\* The steps in which the token of call id is signalled after its request
\* was written, and tryCancelRequest has no way to tell the worker.
CancelsWrittenNoChannel(id) == CancelsWritten(id) /\ ~SideChannel

ForkFails ==
    \E p \in 1..Len(promises) :
        /\ ~promises[p].forked
        /\ promises'[p].forked
        /\ Len(handles') = Len(handles)

\* No call that returns a promise is pending.
NothingPending == \A id \in Calls : calls[id].result # "pending"

\* C14: when the worker fails to spawn, the promises of the calls made
\* before are rejected and the session is torn down: once the failure is
\* handled no promise is pending and there is no service promise.
C14_ForkFailureRejectsPending ==
    [][ForkFails => (NothingPending' /\ servicePromise' = 0)]_vars

\* ------------------------------------------------------------------ C15
\* The steps in which the reader of a worker's output reports an error.
ReaderFails ==
    \E h \in Handles : ~handles[h].readerError /\ handles'[h].readerError

\* C15: when the reader reports an error, the promises of the calls made
\* before are rejected and the session is torn down.
C15_ReaderErrorRejectsPending ==
    [][ReaderFails => (NothingPending' /\ servicePromise' = 0)]_vars

\* ------------------------------------------------------------------ C16
\* The steps that call startService: the session is replaced.
ReplacesSession == NumStarts(Cur)' > NumStarts(Cur)

\* The calls whose callbacks are registered in the CallbackMap.
Registered == MapValues(callbacks) \cup MapValues(asyncCallbacks)

\* C16: when the session is replaced, the callbacks registered before are
\* rejected, and the new session starts with an empty CallbackMap and an
\* empty queue.
C16_ReplacementRejectsRegistered ==
    [][ReplacesSession =>
          /\ \A id \in Registered : calls'[id].result # "pending"
          /\ callbacks' = EmptyMap
          /\ asyncCallbacks' = EmptyMap
          /\ queue' = <<>>
      ]_vars

\* ------------------------------------------------------------------ C17
\* The steps in which the request of call id is written to handle h.
Writes(h, id) ==
    /\ h \in Handles
    /\ id \in Calls
    /\ ~WrittenTo(h, id)
    /\ WrittenTo(h, id)'

\* The request of call id is on its way to a worker, or was written, or
\* its call was cancelled.
NotLost(id) ==
    \/ InQueue(id)
    \/ WaitsForService(id)
    \/ Written(id)
    \/ calls[id].cancelled # "no"

\* C17: a request issued while restartTsServer replaces the session is
\* written only to a running process that restartTsServer has not killed,
\* and it is not lost on the way: it waits in the queue or for the service
\* promise until it is written.
C17_IssuedDuringRestart ==
    /\ [][\A h \in Handles : \A id \in Calls :
             (Writes(h, id) /\ calls[id].inRestart) =>
                (handles[h].state = "running" /\ ~handles[h].killed)
         ]_vars
    /\ [](\A id \in Calls : calls[id].inRestart => NotLost(id))

\* ------------------------------------------------------------------ C18
\* The calls of execute among the requests handle h received, in the order
\* received.
SyncWrittenTo(h) ==
    SelectSeq(CallsWrittenTo(h), LAMBDA id : calls[id].kind = "sync")

\* The steps that settle the promise of call id.
Settles(id) ==
    /\ id \in Calls
    /\ calls[id].result = "pending"
    /\ calls'[id].result # "pending"

\* C18: a worker receives the requests of execute in the order of the calls,
\* and their promises are settled in that order: when the promise of a call
\* is settled, the promise of no earlier call written to the same worker is
\* still pending.
C18_SyncInCallOrder ==
    /\ [](\A h \in Handles : \A i, j \in 1..Len(SyncWrittenTo(h)) :
             i < j => SyncWrittenTo(h)[i] < SyncWrittenTo(h)[j])
    /\ [][\A h \in Handles : \A i, j \in 1..Len(SyncWrittenTo(h)) :
             (i < j /\ Settles(SyncWrittenTo(h)[j])) =>
                calls'[SyncWrittenTo(h)[i]].result # "pending"
         ]_vars

\* ------------------------------------------------------------------ C19
\* The steps in which the requestCompleted event of the asynchronous request
\* at place i of handle h is dispatched.
Completes(h, i) ==
    /\ Answers(h, i)
    /\ handles[h].written[i].kind = "async"

\* C19: a request of executeAsync does not hold the gate: pendingResponses
\* counts the callbacks of execute only.  Its promise is resolved when the
\* requestCompleted event that carries its seq is dispatched.
C19_AsyncCompletedByEvent ==
    /\ [](pendingResponses = Cardinality(DOMAIN callbacks))
    /\ [][\A h \in Handles : \A i \in 1..Len(handles[h].written) :
             LET id == handles[h].written[i].id
             IN (/\ Completes(h, i)
                 /\ calls[id].result = "pending"
                 /\ calls[id].cancelled = "no")
                    => calls'[id].result = "resolved"
         ]_vars

\* ------------------------------------------------------------------ C20
\* The seqs a message may carry: those given out so far, and one more.
SeqsSeen == 0..(sequenceNumber + 1)

\* The steps in which the response to the request at place i of handle h is
\* dispatched and no callback is registered under its seq.
AnswersUnmatched(h, i) ==
    /\ Answers(h, i)
    /\ handles[h].written[i].kind # "async"
    /\ fetched(Cur, handles[h].written[i].seq) = 0

\* C20: a response whose request_seq has no callback is dropped.  The lookup
\* changes nothing (dispatchMessage up to its finally block is the
\* identity), no callback is invoked, and unless the finally block finds the
\* gate open and a request waiting, the table, pendingResponses and the
\* queue are as before.
C20_UnmatchedResponseDropped ==
    /\ [](\A seq \in SeqsSeen : \A success \in BOOLEAN :
             fetched(Cur, seq) = 0 =>
                dispatchResponse(Cur, Message("response", "", seq, success)) = Cur)
    /\ [][\A h \in Handles : \A i \in 1..Len(handles[h].written) :
             AnswersUnmatched(h, i) =>
                /\ calls' = calls
                /\ (pendingResponses > 0 \/ queue = <<>>) =>
                      /\ callbacks' = callbacks
                      /\ asyncCallbacks' = asyncCallbacks
                      /\ pendingResponses' = pendingResponses
                      /\ queue' = queue
         ]_vars

\* The worker answered the request of a call that had been cancelled after
\* its request was written: the response found no callback.
C20_Witness ==
    \E h \in Handles : \E i \in DOMAIN handles[h].replied :
        /\ handles[h].written[i].kind = "sync"
        /\ calls[handles[h].written[i].id].cancelled = "sent"
        /\ calls[handles[h].written[i].id].result = "cancelled"

\* ------------------------------------------------------------------ C21
\* The steps in which the response to the request at place i of handle h is
\* dispatched with success = false, and a callback is registered under its
\* seq.
AnswersFailure(h, i) ==
    /\ Answers(h, i)
    /\ handles[h].written[i].kind # "async"
    /\ ~handles'[h].replied[i]
    /\ fetched(Cur, handles[h].written[i].seq) # 0

\* C21: a response with success = false rejects the callback registered
\* under its request_seq and nothing else: every other registered callback
\* stays registered, the promise of every other call is as before, and the
\* session goes on (no process exits, no service is started).
C21_FailureRejectsOnlyItsCallback ==
    [][\A h \in Handles : \A i \in 1..Len(handles[h].written) :
          AnswersFailure(h, i) =>
             LET seq == handles[h].written[i].seq
                 id == fetched(Cur, seq)
             IN /\ calls[id].result = "pending" => calls'[id].result = "failed"
                /\ calls'[id].settles = calls[id].settles + 1
                /\ \A other \in Calls \ {id} : calls'[other] = calls[other]
                /\ \A k \in DOMAIN callbacks \ {seq} :
                      k \in DOMAIN callbacks' /\ callbacks'[k] = callbacks[k]
                /\ \A k \in DOMAIN asyncCallbacks \ {seq} :
                      k \in DOMAIN asyncCallbacks'
                         /\ asyncCallbacks'[k] = asyncCallbacks[k]
                /\ \A g \in Handles : handles'[g].state = handles[g].state
                /\ servicePromise' = servicePromise
                /\ NumStarts(Cur)' = NumStarts(Cur)
      ]_vars

\* A response with success = false has rejected the promise of one call
\* while the callback of another call is registered and its promise pending.
C21_Witness ==
    \E id \in Calls, other \in Registered :
        /\ calls[id].result = "failed"
        /\ other # id
        /\ calls[other].result = "pending"

\* ------------------------------------------------------------------ C22
\* C22: the callback of a call of execute or executeAsync is invoked at most
\* once, whatever the calls, cancellations, responses, events, exits and
\* restarts.
C22_CallbackInvokedAtMostOnce ==
    \A id \in Calls : calls[id].settles <= 1

\* One call was rejected by the exit of the worker and another by its
\* cancellation, each once.
C22_Witness ==
    \E id, other \in Calls :
        /\ calls[id].result = "died" /\ calls[id].settles = 1
        /\ calls[other].result = "cancelled" /\ calls[other].settles = 1

\* ------------------------------------------------------------------ C23
\* The steps in which restartTsServer is called.
CallsRestart == restartCalls' = restartCalls + 1

\* The request of call id was written to a process that runs.
WrittenToRunning(id) ==
    \E h \in Handles : WrittenTo(h, id) /\ handles[h].state = "running"

\* C23: after the restarts were given up, a call of restartTsServer starts
\* a service, and every call of execute made afterwards is written to the
\* worker it started.
C23_UsableAfterSuppression ==
    /\ [][(Suppressed /\ CallsRestart) =>
             /\ NumStarts(Cur)' = NumStarts(Cur) + 1
             /\ servicePromise' # 0
             /\ promises'[servicePromise'].state = "pending"
         ]_vars
    /\ \A id \in 1..RecoveryCalls : (Len(calls) >= id) ~> WrittenToRunning(id)

\* The fatal notice was shown, restartTsServer was called, and the calls
\* made since were written to the worker it started and answered.
C23_Witness ==
    /\ \E n \in Exits : exits[n].notice = "fatal"
    /\ restartCalls = 1
    /\ Len(calls) = RecoveryCalls
    /\ \A id \in Calls : WrittenToRunning(id) /\ calls[id].result # "pending"

\* ------------------------------------------------------------------ C24
\* The onReady calls made so far, the constructor's first.
Subscribers == 1..Len(readyInvoked)

\* A continuation of a subscriber is ready to run.
ReadyQueued ==
    \E i \in 1..Len(microtasks) : microtasks[i].type = "ready"

\* C24: the function given to onReady runs once and no more, and only after
\* a worker has been started; once a start has succeeded every subscriber's
\* function does run; a fork that fails runs none and makes none ready.
C24_ReadyInvokedOnce ==
    /\ [](\A n \in Subscribers :
            /\ readyInvoked[n] <= 1
            /\ readyInvoked[n] = 1 => Handles # {})
    /\ [][ForkFails =>
            /\ readyInvoked' = readyInvoked
            /\ ReadyQueued' = ReadyQueued
            /\ readyResolved' = readyResolved]_vars
    /\ \A n \in 1..ReadySubscribers :
            (Handles # {} /\ n \in Subscribers)
                ~> (n \in Subscribers /\ readyInvoked[n] = 1)

\* Two starts have succeeded and a later one has failed, and each of the
\* subscribers has been invoked once.
C24_Witness ==
    /\ Len(handles) = 2
    /\ lastError
    /\ Len(readyInvoked) = ReadySubscribers
    /\ \A n \in Subscribers : readyInvoked[n] = 1

\* ------------------------------------------------------------------ C25
\* The seqs that fetch has returned a callback for.
Fetched == {calls[id].seq : id \in {x \in Calls : calls[x].result = "ok"}}

\* A callback of executeAsync is registered, or fetched.
AddsAsync ==
    /\ Len(calls') = Len(calls) + 1
    /\ calls'[Len(calls')].kind = "async"

FetchesAsync ==
    \E id \in Calls :
        /\ calls[id].kind = "async"
        /\ calls[id].seq \in DOMAIN asyncCallbacks
        /\ calls[id].seq \notin DOMAIN asyncCallbacks'

\* C25: pendingResponses is the number of callbacks in the map of the
\* execute calls; registering or fetching a callback of executeAsync leaves
\* pendingResponses as it is; fetch of a seq it has returned a callback for
\* returns undefined and changes nothing.
C25_PendingCountsCallbacks ==
    /\ [](pendingResponses = Cardinality(DOMAIN callbacks))
    /\ [][(AddsAsync \/ FetchesAsync) => pendingResponses' = pendingResponses]_vars
    /\ [](\A seq \in Fetched : fetched(Cur, seq) = 0 /\ fetch(Cur, seq) = Cur)

\* Two callbacks of execute are registered after a third was fetched and a
\* callback of executeAsync was registered and fetched.
C25_Witness ==
    /\ pendingResponses = 2
    /\ \E id, other \in Calls :
        /\ calls[id].kind = "sync" /\ calls[id].result = "ok"
        /\ calls[other].kind = "async" /\ calls[other].result = "ok"

\* ------------------------------------------------------------------ C26
\* The steps in which destroy invokes e of a callback not invoked before.
Destroys ==
    \E id \in Calls : calls[id].result = "pending" /\ calls'[id].result = "died"

\* No callback registered is left uninvoked.
AllInvoked ==
    \A id \in MapValues(callbacks) \cup MapValues(asyncCallbacks) :
        calls[id].result # "pending"

\* C26: destroy invokes e of every callback registered, and after it fetch
\* returns undefined for every seq and pendingResponses is 0.
C26_DestroyFailsAllAndClears ==
    [][Destroys =>
        /\ AllInvoked'
        /\ pendingResponses' = 0
        /\ \A seq \in 0..(MapCalls - 1) : fetched(Cur, seq)' = 0]_vars

\* ------------------------------------------------------------------ C27
\* The reader delivers a message: an answer, a requestCompleted event, or
\* another event or a message of unknown type.
Delivers ==
    \/ \E h \in Handles : handles'[h].replied # handles[h].replied
    \/ OtherMessage(SessionEnv)

\* The state dispatchMessage leaves when given a message of unknown type.
AfterUnknown(v) == dispatchMessage(Cur, Message("unknown", "other", 0, TRUE), v)

\* No queued request could be sent: the drain loop has run to its end.
Drained(s) == ~(s.pendingResponses = 0 /\ Len(s.queue) > 0)

\* From the current state to s nothing has changed but what the drain loop
\* does: requests leave the head of the queue, their callbacks are
\* registered and their writes are queued.
OnlyDrained(s) ==
    /\ s.servicePromise = servicePromise
    /\ s.handles = handles
    /\ s.calls = calls
    /\ s.promises = promises
    /\ s.lastError = lastError /\ s.numberRestarts = numberRestarts
    /\ s.sequenceNumber = sequenceNumber
    /\ \E n \in 0..Len(queue) :
        /\ s.queue = SubSeq(queue, n + 1, Len(queue))
        /\ \A seq \in DOMAIN callbacks : seq \in DOMAIN s.callbacks
                                          /\ s.callbacks[seq] = callbacks[seq]
        /\ \A seq \in DOMAIN asyncCallbacks : seq \in DOMAIN s.asyncCallbacks
                                          /\ s.asyncCallbacks[seq] = asyncCallbacks[seq]
        /\ (DOMAIN s.callbacks \cup DOMAIN s.asyncCallbacks)
               \ (DOMAIN callbacks \cup DOMAIN asyncCallbacks)
             \subseteq {queue[i].seq : i \in 1..n}

\* C27: every message the reader delivers ends with the drain loop; a
\* message of unknown type changes nothing but what the drain loop does,
\* and the session goes on.
C27_UnknownMessageOnlyDrains ==
    /\ [][Delivers => Drained(Cur)']_vars
    /\ [](\A v \in Versions :
            (Idle /\ \E h \in Handles : Running(h))
                => Drained(AfterUnknown(v)) /\ OnlyDrained(AfterUnknown(v)))

\* The request of the second call was written while the first, cancelled
\* after it was written, is unanswered and no third call was made: a
\* message that is no answer has drained the queue.
C27_Witness ==
    /\ Len(calls) = 2
    /\ calls[1].kind = "sync" /\ calls[1].cancelled = "sent"
    /\ calls[2].kind = "sync"
    /\ \E h \in Handles :
        /\ Running(h)
        /\ handles[h].replied = EmptyMap
        /\ WrittenTo(h, 1) /\ WrittenTo(h, 2)

\* ------------------------------------------------------------------ C28
\* C28: a request that was in the queue when serviceExited ran for a worker
\* that died on its own is written to no worker.  (It was written to none
\* before: a request leaves the queue when it is sent.)
C28_QueuedAtExitNeverWritten ==
    \A n \in Exits :
        exits[n].restart => \A id \in exits[n].queued : ~Written(id)

\* ------------------------------------------------------------------ C29
\* C29: pendingResponses of the CallbackMap in use is 0 or 1.
C29_AtMostOnePendingResponse == pendingResponses \in {0, 1}

\* A response is outstanding and a request of execute waits behind it.
C29_Witness ==
    /\ pendingResponses = 1
    /\ \E i \in 1..Len(queue) : queue[i].kind = "sync"
    /\ \E id \in Calls : Written(id) /\ calls[id].seq \in DOMAIN callbacks

\* ------------------------------------------------------------------ C30
\* No service was ever started, or the restarts were given up and nothing
\* has started one since.
NoSession == servicePromise = 0 /\ (exits = <<>> \/ Suppressed)

\* The owner calls execute: call id is made.
CallsExecute(id) ==
    /\ Len(calls') = id
    /\ Len(calls) = id - 1
    /\ calls'[id].kind = "sync"

\* C30: a call of execute made while there is no session starts a service
\* and its callback is registered, under its seq, in the CallbackMap in use
\* when the call returns.
C30_ExecuteWithoutSessionRegistered ==
    [][\A id \in 1..MaxCalls :
        (NoSession /\ CallsExecute(id)) =>
            /\ servicePromise' # 0
            /\ calls'[id].seq \in DOMAIN callbacks'
            /\ callbacks'[calls'[id].seq] = id]_vars

\* ------------------------------------------------------------------ C31
\* The steps in which the token of call id is signalled.
SignalsToken(id) ==
    /\ id \in Calls
    /\ calls[id].cancelled = "no"
    /\ calls'[id].cancelled # "no"

\* C31: the signal of the token of one call takes the request of no other
\* call out of the queue, and invokes the callback of no other call.
C31_CancelTouchesOnlyItsRequest ==
    [][\A id \in 1..MaxCalls : SignalsToken(id) =>
          \A other \in Calls \ {id} :
              /\ InQueue(other) => \E i \in 1..Len(queue') : queue'[i].id = other
              /\ calls'[other].result = calls[other].result
              /\ calls'[other].settles = calls[other].settles
              /\ other \in Registered => other \in Registered'
      ]_vars

\* ------------------------------------------------------------------ C32
\* C32: when the process restartTsServer killed exits, the service started
\* in its place stays: servicePromise is kept, and the callbacks registered
\* since stay registered and are not invoked.
C32_OldExitLeavesNewSession ==
    [][\A h \in Handles : (ExitsAfterRestart(h) /\ servicePromise # 0) =>
          /\ servicePromise' = servicePromise
          /\ callbacks' = callbacks
          /\ asyncCallbacks' = asyncCallbacks
          /\ \A id \in Registered : calls'[id].result = calls[id].result
      ]_vars

\* ------------------------------------------------------------------ C33
\* The processes forked that were not killed and have not exited.
Alive == {h \in Handles : handles[h].state = "running" /\ ~handles[h].killed}

\* C33: at most one worker process is alive.
C33_AtMostOneAlive == Cardinality(Alive) <= 1

\* ------------------------------------------------------------------ C34
\* The steps in which the process that dispose killed exits.
ExitsAfterDispose(h) ==
    /\ h \in Handles
    /\ disposed
    /\ handles[h].killed
    /\ handles[h].state = "running"
    /\ handles'[h].state = "exited"

\* C34: the exit of the process that dispose killed is not counted as a
\* crash and starts no service.
C34_DisposeExitStartsNothing ==
    [][\A h \in Handles : ExitsAfterDispose(h) =>
          /\ numberRestarts' = numberRestarts
          /\ NumStarts(Cur)' = NumStarts(Cur)
          /\ servicePromise' = 0
      ]_vars

====
